---- MODULE Spec2Model ----
(***************************************************************************)
(* GorillaWebsocketConnectionAdapter (package gorilla): one adapter, its   *)
(* connection handle `conn`, its mutex `mu`, its buffered channel of reply *)
(* channels `pingRequests`, and the goroutines that call Dial, Close,      *)
(* Ping, Read and Write on it.                                             *)
(*                                                                         *)
(* Granularity. Every action is one atomic step of one goroutine: a        *)
(* critical section of `mu` that contains no blocking call, one channel    *)
(* operation, one call into the transport. A propagate loop is one action  *)
(* per iteration (the receive from `pingRequests` and the non-blocking     *)
(* send on the received channel).                                          *)
(*                                                                         *)
(* Go channel semantics used. `pong` is unbuffered, so the non-blocking    *)
(* send `listener <- notification` succeeds exactly when the Ping call     *)
(* that owns the channel is parked in its last select; once the context    *)
(* of a parked select is done the select is committed to that case and no  *)
(* send can reach it.                                                      *)
(*                                                                         *)
(* The transport (gorilla/websocket and the peer) is the environment: a    *)
(* handshake, a control-frame send and a data write may fail; the peer     *)
(* answers every ping frame it receives with a pong and may send a close   *)
(* frame on any open connection at any time.                               *)
(***************************************************************************)
EXTENDS Integers, Sequences, FiniteSets

(* Bounds of the model. *)
QueueCap == 2
MaxConns == 2
PingConns == 1
NWriters == 2

NPings == QueueCap + 1
Pings == 1..NPings
Writers == 1..NWriters
NoConn == 0
ConnIds == 1..MaxConns
StatusCodes == {1000, 1001}
NoCode == 0

LocalCause == "client closed the connection"
RemoteCause == "close message received from server"

VARIABLES
    conn,          \* adapter.conn: NoConn (nil) or a connection id
    mu,            \* adapter.mu: "none" or the goroutine holding it
    pingRequests,  \* adapter.pingRequests: the buffered channel, a sequence of Ping ids
    nextConn,      \* number of connections the dialer has produced so far
    pongs,         \* per connection: pong frames the peer has sent, not yet read
    closeIn,       \* per connection: status code of a close frame sent by the peer, not yet read
    pc,            \* per Ping call: position in Ping
    pconn,         \* per Ping call, until it returns: the local `conn`
    ctxDone,       \* per Ping call, until it returns: ctx.Done() is closed
    result,        \* per Ping call: the returned error
    rpc,           \* Read goroutine: position in Read
    rconn,         \* Read goroutine, until Read returns: the local `conn`
    cpc,           \* Close goroutine: position in Close
    ccode,         \* Close goroutine: the `code` argument
    cerr,          \* Close goroutine: the local `err` of WriteControl
    closePending,  \* history: Pings pending when the running Close began its propagation
    handlerPending, \* history: the waiting Pings when the handler that Read is running began
    dpc,           \* Dial goroutine: position in Dial
    wpc,           \* Write goroutines: position of each in Write
    returned       \* what the latest step returned to a caller of Dial, Close, Read or Write, if it was a return: [call, value]

pingVars == <<pc, pconn, ctxDone, result>>
readVars == <<rpc, rconn, handlerPending>>
closeVars == <<cpc, ccode, cerr, closePending>>
wireVars == <<pongs, closeIn>>
vars == <<conn, mu, pingRequests, nextConn, pongs, closeIn, pc, pconn, ctxDone,
          result, rpc, rconn, cpc, ccode, cerr, closePending,
          handlerPending, dpc, wpc, returned>>

(* Returned values. *)
Res(kind, code, cause) == [kind |-> kind, code |-> code, cause |-> cause]
NoResult == Res("none", NoCode, "")
NilResult == Res("nil", NoCode, "")
CtxError == Res("ctx", NoCode, "")
(* ctx.Err() returned by Ping, with the select that returned it. *)
PingCtxError(where) == Res("ctx", NoCode, where)
NotBoundError == Res("notbound", NoCode, "")
AlreadyBoundError == Res("alreadybound", NoCode, "")
PingFailedError == Res("pingfailed", NoCode, "")
TransportError == Res("transport", NoCode, "")
NilDereference == Res("panic", NoCode, "")
DataMessage == Res("data", NoCode, "")
WebsocketCloseError(code, cause) == Res("close", code, cause)

(* A Dial, Close, Read or Write call returns `value` to its caller. *)
Return(call, value) == returned' = [call |-> call, value |-> value]

(* The step is no return of Dial, Close, Read or Write. *)
NoReturn == returned' = [call |-> "none", value |-> NoResult]

InQueue(p) == \E i \in 1..Len(pingRequests) : pingRequests[i] = p

(* The Ping call p is parked in its last select with a live context: the  *)
(* only state in which a non-blocking send on its pong channel succeeds.  *)
Deliverable(p) == pc[p] = "waiting" /\ ~ctxDone[p]

Init ==
    /\ conn = NoConn
    /\ mu = "none"
    /\ pingRequests = <<>>
    /\ nextConn = 0
    /\ pongs = [c \in ConnIds |-> 0]
    /\ closeIn = [c \in ConnIds |-> NoCode]
    /\ pc = [p \in Pings |-> "idle"]
    /\ pconn = [p \in Pings |-> NoConn]
    /\ ctxDone = [p \in Pings |-> FALSE]
    /\ result = [p \in Pings |-> NoResult]
    /\ rpc = "idle"
    /\ rconn = NoConn
    /\ cpc = "idle"
    /\ ccode = NoCode
    /\ cerr = FALSE
    /\ closePending = {}
    /\ handlerPending = {}
    /\ dpc = "idle"
    /\ wpc = [w \in Writers |-> "idle"]
    /\ returned = [call |-> "none", value |-> NoResult]

(***************************************************************************)
(* propagateToFirstActiveListener / propagateToAllActiveListener           *)
(***************************************************************************)

(* The Ping call p returns err; its local `conn` and its context go with   *)
(* it.                                                                     *)
PingReturn(p, err) ==
    /\ pc' = [pc EXCEPT ![p] = "done"]
    /\ result' = [result EXCEPT ![p] = err]
    /\ pconn' = [pconn EXCEPT ![p] = NoConn]
    /\ ctxDone' = [ctxDone EXCEPT ![p] = FALSE]

(* A receive that leaves the channel it received in pingRequests. *)
ReceiveLeavesHead(listeners) == listeners

(* `case listener := <-listeners`: what the receive leaves in the channel. *)
AfterReceive(listeners) == Tail(listeners)

(* One iteration of either loop with a channel received: the head of      *)
(* pingRequests is taken out and the notification is offered to it with a  *)
(* non-blocking send; a listener that is not receiving is dropped.         *)
Notify(notification) ==
    LET listener == Head(pingRequests) IN
    /\ pingRequests' = AfterReceive(pingRequests)
    /\ IF Deliverable(listener)
       THEN PingReturn(listener, notification)
       ELSE UNCHANGED <<pc, result, pconn, ctxDone>>

(* A scan that returns after the first channel it receives, delivered to   *)
(* or not.                                                                 *)
PropagateReturnsAtOnce == TRUE

(* propagateToFirstActiveListener leaves its loop in this iteration: no    *)
(* channel received (return false) or the notification was sent (true).    *)
PropagateToFirstReturns ==
    pingRequests = <<>> \/ Deliverable(Head(pingRequests))

(* propagateToAllActiveListener leaves its loop in this iteration: no      *)
(* channel received, or the notification was sent (the `return` of the     *)
(* inner select's send case).                                              *)
PropagateToAllReturns ==
    pingRequests = <<>> \/ Deliverable(Head(pingRequests))

(* The Pings a propagation that starts now is about: registered and        *)
(* blocked in the reply wait.                                              *)
PendingPings == {p \in Pings : Deliverable(p) /\ InQueue(p)}

(* The Pings blocked in the reply wait, registered still or not. *)
WaitingPings == {p \in Pings : Deliverable(p)}

(***************************************************************************)
(* Dial                                                                    *)
(***************************************************************************)

(* Dial without the check of the handle. *)
DialNeverRefused == FALSE

(* `if adapter.conn != nil`: Dial refuses to dial. *)
DialRefused == conn # NoConn

(* Dial called with a context that is already done. *)
DialCancelled ==
    /\ dpc = "idle"
    /\ Return("Dial", CtxError)
    /\ UNCHANGED <<conn, mu, pingRequests, nextConn, wireVars, pingVars,
                   readVars, closeVars, dpc, wpc>>

(* Dial called with a live context: Lock and the check of the handle. *)
DialLock ==
    /\ dpc = "idle"
    /\ mu = "none"
    /\ IF DialRefused
       THEN Return("Dial", AlreadyBoundError) /\ UNCHANGED <<mu, dpc>>
       ELSE mu' = "dialer" /\ dpc' = "handshake" /\ NoReturn
    /\ UNCHANGED <<conn, pingRequests, nextConn, wireVars, pingVars,
                   readVars, closeVars, wpc>>

(* A failed handshake binds a connection all the same. *)
DialBindsOnFailure == IF nextConn < MaxConns THEN nextConn + 1 ELSE conn

(* `return res, err` of a failed handshake: the handle it leaves. *)
DialHandleAfterFailure == conn

(* adapter.dialer.DialContext(...), the handle and the handlers set on     *)
(* success, the deferred Unlock.                                           *)
DialHandshake ==
    /\ dpc = "handshake"
    /\ \E ok \in BOOLEAN :
          IF ok
          THEN /\ nextConn < MaxConns
               /\ nextConn' = nextConn + 1
               /\ conn' = nextConn + 1
               /\ Return("Dial", NilResult)
          ELSE /\ Return("Dial", TransportError)
               /\ conn' = DialHandleAfterFailure
               /\ UNCHANGED nextConn
    /\ mu' = "none"
    /\ dpc' = "idle"
    /\ UNCHANGED <<pingRequests, wireVars, pingVars, readVars, closeVars, wpc>>

(***************************************************************************)
(* Close                                                                   *)
(***************************************************************************)

(* `adapter.conn = nil`, the value Close leaves in the handle. *)
CloseHandleAfter == NoConn

(* Lock and the check of the handle. *)
CloseStart(code) ==
    /\ cpc = "idle"
    /\ mu = "none"
    /\ IF conn = NoConn
       THEN Return("Close", NotBoundError) /\ UNCHANGED <<mu, cpc, ccode>>
       ELSE /\ mu' = "closer"
            /\ cpc' = "send"
            /\ ccode' = code
            /\ NoReturn
    /\ UNCHANGED <<conn, pingRequests, nextConn, wireVars, pingVars, readVars,
                   cerr, closePending, dpc, wpc>>

(* adapter.conn.WriteControl(CloseMessage, ...): the handle is read again; *)
(* a handle cleared meanwhile by Read (which writes it without the lock)   *)
(* is a nil dereference, and the deferred Unlock runs.                     *)
CloseSend ==
    /\ cpc = "send"
    /\ IF conn = NoConn
       THEN /\ Return("Close", NilDereference)
            /\ cpc' = "idle"
            /\ mu' = "none"
            /\ ccode' = NoCode
            /\ UNCHANGED <<cerr, closePending>>
       ELSE /\ \E failed \in BOOLEAN : cerr' = failed
            /\ cpc' = "propagate"
            /\ closePending' = PendingPings
            /\ NoReturn /\ UNCHANGED <<mu, ccode>>
    /\ UNCHANGED <<conn, pingRequests, nextConn, wireVars, pingVars, readVars,
                   dpc, wpc>>

(* One iteration of propagateToAllActiveListener with the local close      *)
(* error.                                                                  *)
ClosePropagate ==
    /\ cpc = "propagate"
    /\ cpc' = IF PropagateToAllReturns THEN "unbind" ELSE "propagate"
    /\ IF pingRequests = <<>>
       THEN UNCHANGED <<pingRequests, pingVars>>
       ELSE Notify(WebsocketCloseError(ccode, LocalCause))
    /\ UNCHANGED <<conn, mu, nextConn, wireVars, readVars, ccode, cerr,
                   closePending, dpc, wpc>>
    /\ NoReturn

(* `adapter.conn = nil`, `return err`, the deferred Unlock. *)
CloseUnbind ==
    /\ cpc = "unbind"
    /\ conn' = CloseHandleAfter
    /\ Return("Close", IF cerr THEN TransportError ELSE NilResult)
    /\ mu' = "none"
    /\ cpc' = "idle"
    /\ ccode' = NoCode
    /\ cerr' = FALSE
    /\ closePending' = {}
    /\ UNCHANGED <<pingRequests, nextConn, wireVars, pingVars, readVars,
                   dpc, wpc>>

(***************************************************************************)
(* Ping                                                                    *)
(***************************************************************************)

(* The context of a Ping call ends (cancel or deadline). *)
Cancel(p) ==
    /\ pc[p] # "done"
    /\ ~ctxDone[p]
    /\ ctxDone' = [ctxDone EXCEPT ![p] = TRUE]
    /\ UNCHANGED <<conn, mu, pingRequests, nextConn, wireVars, pc, pconn,
                   result, readVars, closeVars, dpc, wpc>>
    /\ NoReturn

(* Ping without its first select. *)
PingNoCtxShortcut(p) == FALSE

(* First select of Ping: `case <-ctx.Done()` is ready. *)
PingCtxShortcut(p) == ctxDone[p]

(* Ping without the nil check. *)
PingNeverSeesNoConnection(c) == FALSE

(* `if conn == nil` on the local copy of the handle. *)
PingSeesNoConnection(c) == c = NoConn

(* An unbounded pingRequests channel. *)
PingAlwaysHasRoom == TRUE

(* `case adapter.pingRequests <- pong` can proceed: the channel has room. *)
PingHasRoom == Len(pingRequests) < QueueCap

(* A second and a third select without their ctx.Done() case. *)
PingCtxNeverReady(p) == FALSE

(* `case <-ctx.Done()` of the second and the third select is ready. *)
PingCtxReady(p) == ctxDone[p]

PingStart(p) ==
    /\ pc[p] = "idle"
    /\ IF PingCtxShortcut(p)
       THEN PingReturn(p, PingCtxError("entry"))
       ELSE /\ pc' = [pc EXCEPT ![p] = "lock"]
            /\ UNCHANGED <<result, pconn, ctxDone>>
    /\ UNCHANGED <<conn, mu, pingRequests, nextConn, wireVars, readVars,
                   closeVars, dpc, wpc>>
    /\ NoReturn

(* A Ping that goes to WriteControl without registering its channel. *)
PingSkipsRegistration == "send"

(* What Ping does next after the nil check: the second select, which       *)
(* registers the pong channel, comes before WriteControl.                  *)
PingNextAfterCheck == "register"

(* Lock, conn := adapter.conn, Unlock, and the nil check. *)
PingGetConn(p) ==
    /\ pc[p] = "lock"
    /\ mu = "none"
    /\ IF PingSeesNoConnection(conn)
       THEN PingReturn(p, NotBoundError)
       ELSE /\ pc' = [pc EXCEPT ![p] = PingNextAfterCheck]
            /\ pconn' = [pconn EXCEPT ![p] = conn]
            /\ UNCHANGED <<result, ctxDone>>
    /\ UNCHANGED <<conn, mu, pingRequests, nextConn, wireVars, readVars,
                   closeVars, dpc, wpc>>
    /\ NoReturn

(* Second select, the send case: the pong channel is registered. *)
PingRegister(p) ==
    /\ pc[p] = "register"
    /\ PingHasRoom
    /\ pingRequests' = Append(pingRequests, p)
    /\ pc' = [pc EXCEPT ![p] = "send"]
    /\ UNCHANGED <<conn, mu, nextConn, wireVars, pconn, ctxDone, result,
                   readVars, closeVars, dpc, wpc>>
    /\ NoReturn

(* Second select, the ctx.Done() case. *)
PingRegisterCancelled(p) ==
    /\ pc[p] = "register"
    /\ PingCtxReady(p)
    /\ PingReturn(p, PingCtxError("register"))
    /\ UNCHANGED <<conn, mu, pingRequests, nextConn, wireVars, readVars,
                   closeVars, dpc, wpc>>
    /\ NoReturn

(* The queue without the slot of p. *)
SlotsWithout(p) ==
    LET Other(q) == q # p IN SelectSeq(pingRequests, Other)

(* A Ping that takes its slot back when its WriteControl fails. *)
SlotsWithoutFailed(p) == SlotsWithout(p)

(* `return fmt.Errorf("ping failed: %w", err)`: the queue it leaves. *)
SlotsAfterFailedSend(p) == pingRequests

(* conn.WriteControl(PingMessage, ...) on the local handle. The peer       *)
(* answers a ping frame it receives with a pong on the same connection.    *)
PingSend(p) ==
    /\ pc[p] = "send"
    /\ \E failed \in BOOLEAN :
          IF failed
          THEN /\ PingReturn(p, PingFailedError)
               /\ pingRequests' = SlotsAfterFailedSend(p)
               /\ UNCHANGED pongs
          ELSE /\ pc' = [pc EXCEPT ![p] = "select"]
               /\ pongs' = [pongs EXCEPT ![pconn[p]] = @ + 1]
               /\ UNCHANGED <<pingRequests, result, pconn, ctxDone>>
    /\ UNCHANGED <<conn, mu, nextConn, closeIn, readVars, closeVars, dpc, wpc>>
    /\ NoReturn

(* Third select entered with nothing ready: the goroutine parks, and its   *)
(* pong channel has a receiver from now on.                                *)
PingPark(p) ==
    /\ pc[p] = "select"
    /\ ~PingCtxReady(p)
    /\ pc' = [pc EXCEPT ![p] = "waiting"]
    /\ UNCHANGED <<conn, mu, pingRequests, nextConn, wireVars, pconn, ctxDone,
                   result, readVars, closeVars, dpc, wpc>>
    /\ NoReturn

(* A Ping that takes its slot back when its context ends. *)
SlotsWithoutCancelled(p) == SlotsWithout(p)

(* `return ctx.Err()` of the third select: the queue it leaves. *)
SlotsAfterCancel(p) == pingRequests

(* Third select, the ctx.Done() case (on entry, or waking a parked call). *)
PingWaitCancelled(p) ==
    /\ pc[p] \in {"select", "waiting"}
    /\ PingCtxReady(p)
    /\ PingReturn(p, PingCtxError("wait"))
    /\ pingRequests' = SlotsAfterCancel(p)
    /\ UNCHANGED <<conn, mu, nextConn, wireVars, readVars, closeVars, dpc, wpc>>
    /\ NoReturn

(***************************************************************************)
(* Read, pongHandler, closeHandler                                         *)
(***************************************************************************)

(* Read called with a context that is already done. *)
ReadCancelled ==
    /\ rpc = "idle"
    /\ Return("Read", CtxError)
    /\ UNCHANGED <<conn, mu, pingRequests, nextConn, wireVars, pingVars,
                   readVars, closeVars, dpc, wpc>>

(* Read called with a live context: Lock, conn := adapter.conn, Unlock,    *)
(* and the nil check.                                                      *)
ReadGetConn ==
    /\ rpc = "idle"
    /\ mu = "none"
    /\ IF conn = NoConn
       THEN Return("Read", NotBoundError) /\ UNCHANGED <<rpc, rconn>>
       ELSE rpc' = "reading" /\ rconn' = conn /\ NoReturn
    /\ UNCHANGED <<conn, mu, pingRequests, nextConn, wireVars, pingVars,
                   handlerPending, closeVars, dpc, wpc>>

(* conn.ReadMessage() meets a pong frame and calls pongHandler. *)
ReadPong ==
    /\ rpc = "reading"
    /\ pongs[rconn] > 0
    /\ pongs' = [pongs EXCEPT ![rconn] = @ - 1]
    /\ rpc' = "pong"
    /\ handlerPending' = WaitingPings
    /\ UNCHANGED <<conn, mu, pingRequests, nextConn, closeIn, pingVars, rconn,
                   closeVars, dpc, wpc>>
    /\ NoReturn

(* pongHandler: one iteration of propagateToFirstActiveListener(.., nil);  *)
(* when it returns, ReadMessage goes on reading.                           *)
PongPropagate ==
    /\ rpc = "pong"
    /\ rpc' = IF PropagateToFirstReturns THEN "reading" ELSE "pong"
    /\ handlerPending' = IF PropagateToFirstReturns THEN {} ELSE handlerPending
    /\ IF pingRequests = <<>>
       THEN UNCHANGED <<pingRequests, pingVars>>
       ELSE Notify(NilResult)
    /\ UNCHANGED <<conn, mu, nextConn, wireVars, rconn, closeVars, dpc, wpc>>
    /\ NoReturn

(* conn.ReadMessage() meets the peer's close frame and calls closeHandler. *)
ReadCloseFrame ==
    /\ rpc = "reading"
    /\ closeIn[rconn] # NoCode
    /\ rpc' = "closing"
    /\ handlerPending' = PendingPings
    /\ UNCHANGED <<conn, mu, pingRequests, nextConn, wireVars, pingVars, rconn,
                   closeVars, dpc, wpc>>
    /\ NoReturn

(* closeHandler: one iteration of propagateToAllActiveListener; when it    *)
(* returns, ReadMessage returns the *websocket.CloseError.                 *)
CloseHandlerPropagate ==
    /\ rpc = "closing"
    /\ rpc' = IF PropagateToAllReturns THEN "unbind" ELSE "closing"
    /\ IF pingRequests = <<>>
       THEN UNCHANGED <<pingRequests, pingVars>>
       ELSE Notify(WebsocketCloseError(closeIn[rconn], RemoteCause))
    /\ UNCHANGED <<conn, mu, nextConn, wireVars, rconn, handlerPending,
                   closeVars, dpc, wpc>>
    /\ NoReturn

(* Read without line 241: the handle is left as it is. *)
ReadKeepsHandle == conn

(* Read writes the connection it read from into the handle. *)
ReadRestoresHandle == rconn

(* `adapter.conn = nil`, the value Read leaves in the handle. *)
ReadHandleAfterClose == NoConn

(* `adapter.conn = nil` (written without the lock) and the return of the   *)
(* WebsocketCloseError built from the transport's close error.             *)
ReadUnbind ==
    /\ rpc = "unbind"
    /\ conn' = ReadHandleAfterClose
    /\ Return("Read", WebsocketCloseError(closeIn[rconn], "websocket: close"))
    /\ rpc' = "idle"
    /\ rconn' = NoConn
    /\ handlerPending' = {}
    /\ UNCHANGED <<mu, pingRequests, nextConn, wireVars, pingVars,
                   closeVars, dpc, wpc>>

(* conn.ReadMessage() returns a data message. *)
ReadData ==
    /\ rpc = "reading"
    /\ Return("Read", DataMessage)
    /\ rpc' = "idle"
    /\ rconn' = NoConn
    /\ UNCHANGED <<conn, mu, pingRequests, nextConn, wireVars, pingVars,
                   handlerPending, closeVars, dpc, wpc>>

(* conn.ReadMessage() fails with an error that is no close error. *)
ReadError ==
    /\ rpc = "reading"
    /\ Return("Read", TransportError)
    /\ rpc' = "idle"
    /\ rconn' = NoConn
    /\ UNCHANGED <<conn, mu, pingRequests, nextConn, wireVars, pingVars,
                   handlerPending, closeVars, dpc, wpc>>

(***************************************************************************)
(* Write                                                                   *)
(***************************************************************************)

(* Write called with a context that is already done. *)
WriteCancelled(w) ==
    /\ wpc[w] = "idle"
    /\ Return("Write", CtxError)
    /\ UNCHANGED <<conn, mu, pingRequests, nextConn, wireVars, pingVars,
                   readVars, closeVars, dpc, wpc>>

(* Write without the mutex. *)
WriteTakesNoLock == TRUE

(* adapter.mu.Lock() of Write returns: the mutex is free. *)
WriteCanLock == mu = "none"

(* Write called with a live context: Lock and the check of the handle. *)
WriteLock(w) ==
    /\ wpc[w] = "idle"
    /\ WriteCanLock
    /\ IF conn = NoConn
       THEN Return("Write", NotBoundError) /\ UNCHANGED <<mu, wpc>>
       ELSE /\ mu' = "writer"
            /\ wpc' = [wpc EXCEPT ![w] = "writing"]
            /\ NoReturn
    /\ UNCHANGED <<conn, pingRequests, nextConn, wireVars, pingVars, readVars,
                   closeVars, dpc>>

(* adapter.conn.WriteMessage(...): the handle is read again, under the     *)
(* lock; a handle cleared meanwhile by Read is a nil dereference. The      *)
(* deferred Unlock runs.                                                   *)
WriteSend(w) ==
    /\ wpc[w] = "writing"
    /\ IF conn = NoConn
       THEN Return("Write", NilDereference)
       ELSE \E failed \in BOOLEAN :
               Return("Write", IF failed THEN TransportError ELSE NilResult)
    /\ mu' = "none"
    /\ wpc' = [wpc EXCEPT ![w] = "idle"]
    /\ UNCHANGED <<conn, pingRequests, nextConn, wireVars, pingVars, readVars,
                   closeVars, dpc>>

(* GetUnderlyingWebsocketConnection: Lock, return adapter.conn, Unlock. *)
GetUnderlyingWebsocketConnection ==
    /\ mu = "none"
    /\ Return("Get", Res("conn", conn, ""))
    /\ UNCHANGED <<conn, mu, pingRequests, nextConn, wireVars, pingVars,
                   readVars, closeVars, dpc, wpc>>

(* One step of the Write call w. *)
WriteStep(w) ==
    \/ WriteCancelled(w)
    \/ WriteLock(w)
    \/ WriteSend(w)

(***************************************************************************)
(* The peer                                                                *)
(***************************************************************************)

(* The peer sends a close frame on a connection it has open. *)
PeerClose(c, code) ==
    /\ c <= nextConn
    /\ closeIn[c] = NoCode
    /\ closeIn' = [closeIn EXCEPT ![c] = code]
    /\ UNCHANGED <<conn, mu, pingRequests, nextConn, pongs, pingVars, readVars,
                   closeVars, dpc, wpc>>
    /\ NoReturn

(***************************************************************************)
(* Specification                                                           *)
(***************************************************************************)

PingStep(p) ==
    \/ Cancel(p)
    \/ PingStart(p)
    \/ PingGetConn(p)
    \/ PingRegister(p)
    \/ PingRegisterCancelled(p)
    \/ PingSend(p)
    \/ PingPark(p)
    \/ PingWaitCancelled(p)

Next ==
    \/ DialCancelled
    \/ DialLock
    \/ DialHandshake
    \/ \E code \in StatusCodes : CloseStart(code)
    \/ CloseSend
    \/ ClosePropagate
    \/ CloseUnbind
    \/ \E p \in Pings : PingStep(p)
    \/ ReadCancelled
    \/ ReadGetConn
    \/ ReadPong
    \/ PongPropagate
    \/ ReadCloseFrame
    \/ CloseHandlerPropagate
    \/ ReadUnbind
    \/ ReadData
    \/ ReadError
    \/ \E w \in Writers : WriteStep(w)
    \/ GetUnderlyingWebsocketConnection
    \/ \E c \in ConnIds, code \in StatusCodes : PeerClose(c, code)

(* The whole adapter: every operation, NPings concurrent Ping calls. *)
Spec == Init /\ [][Next]_vars

(* The life cycle of the handle: every operation of the adapter, one Ping  *)
(* caller, one Write caller, MaxConns connections.                         *)
NextLife ==
    \/ DialCancelled
    \/ DialLock
    \/ DialHandshake
    \/ \E code \in StatusCodes : CloseStart(code)
    \/ CloseSend
    \/ ClosePropagate
    \/ CloseUnbind
    \/ PingStep(1)
    \/ ReadCancelled
    \/ ReadGetConn
    \/ ReadPong
    \/ PongPropagate
    \/ ReadCloseFrame
    \/ CloseHandlerPropagate
    \/ ReadUnbind
    \/ ReadData
    \/ ReadError
    \/ WriteStep(1)
    \/ GetUnderlyingWebsocketConnection
    \/ \E c \in ConnIds, code \in StatusCodes : PeerClose(c, code)

SpecLife == Init /\ [][NextLife]_vars

(* Ping against Close, the Read loop and the peer: QueueCap concurrent     *)
(* Ping calls on the first PingConns connections.                          *)
NextPing ==
    \/ DialLock
    \/ DialHandshake /\ nextConn' <= PingConns
    \/ \E code \in StatusCodes : CloseStart(code)
    \/ CloseSend
    \/ ClosePropagate
    \/ CloseUnbind
    \/ \E p \in 1..QueueCap : PingStep(p)
    \/ ReadGetConn
    \/ ReadPong
    \/ PongPropagate
    \/ ReadCloseFrame
    \/ CloseHandlerPropagate
    \/ ReadUnbind
    \/ ReadData
    \/ \E c \in ConnIds, code \in StatusCodes : PeerClose(c, code)

SpecPing == Init /\ [][NextPing]_vars

(* The queue at capacity: QueueCap + 1 concurrent Ping calls, the Read     *)
(* loop and the peer, on the first PingConns connections.                  *)
NextQueue ==
    \/ DialLock
    \/ DialHandshake /\ nextConn' <= PingConns
    \/ \E p \in Pings : PingStep(p)
    \/ ReadGetConn
    \/ ReadPong
    \/ PongPropagate
    \/ ReadCloseFrame
    \/ CloseHandlerPropagate
    \/ ReadUnbind
    \/ \E c \in ConnIds : PeerClose(c, 1000)

SpecQueue == Init /\ [][NextQueue]_vars

(* The mutex: NWriters concurrent Write calls against Dial, Close and a    *)
(* Read that meets the peer's close.                                       *)
NextWrite ==
    \/ DialLock
    \/ DialHandshake
    \/ \E code \in StatusCodes : CloseStart(code)
    \/ CloseSend
    \/ ClosePropagate
    \/ CloseUnbind
    \/ \E w \in Writers : WriteStep(w)
    \/ ReadGetConn
    \/ ReadCloseFrame
    \/ CloseHandlerPropagate
    \/ ReadUnbind
    \/ \E c \in ConnIds : PeerClose(c, 1000)

SpecWrite == Init /\ [][NextWrite]_vars

(***************************************************************************)
(* Properties                                                              *)
(***************************************************************************)

(* The Ping call p has registered its pong channel and sent its ping       *)
(* frame, and is still in the call with a live context.                    *)
SentAndLive(p) == pc[p] \in {"select", "waiting"} /\ ~ctxDone[p]

(* C1: when Close has finished its propagation (it is about to clear the   *)
(* handle and return), every Ping that was pending when the propagation    *)
(* began has been released: none of them is still blocked waiting with a   *)
(* live context, and one released by this Close holds the close error with *)
(* the cause 'client closed the connection' and the code given to Close.   *)
(* This holds whether the close-frame send succeeded (cerr false) or not.  *)
C1_CloseReleasesEveryPendingPing ==
    cpc = "unbind" =>
        \A p \in closePending :
            /\ ~Deliverable(p)
            /\ (result[p].kind = "close" /\ result[p].cause = LocalCause)
                  => result[p].code = ccode

(* C2: when the closeHandler run by Read for the peer's close frame has    *)
(* finished its propagation (Read is about to return the close error),     *)
(* every Ping that was pending when the handler began has been released:   *)
(* none of them is still blocked waiting with a live context, and one      *)
(* released by the handler holds the close error with the peer's code.     *)
C2_CloseHandlerReleasesEveryPendingPing ==
    rpc = "unbind" =>
        \A p \in handlerPending :
            /\ ~Deliverable(p)
            /\ (result[p].kind = "close" /\ result[p].cause = RemoteCause)
                  => result[p].code = closeIn[rconn]

(* C3: the step in which pongHandler's propagation ends, with a Ping that  *)
(* was blocked waiting for its reply when the pong arrived still waiting,  *)
(* makes exactly one waiting Ping return nil and leaves every other Ping   *)
(* as it was.                                                              *)
C3_EachPongReleasesExactlyOnePing ==
    [][(rpc = "pong" /\ rpc' = "reading"
          /\ \E p \in handlerPending : Deliverable(p))
         => \E p \in Pings :
               /\ Deliverable(p)
               /\ pc'[p] = "done"
               /\ result'[p] = NilResult
               /\ \A q \in Pings \ {p} : pc'[q] = pc[q] /\ result'[q] = result[q]
      ]_vars

(* C4: pongHandler never finds the queue empty (so that the pong is        *)
(* dropped) while a Ping that has registered its reply slot and sent its   *)
(* frame is still in its call with a live context: the pong of such a Ping *)
(* always finds a recipient.                                               *)
C4_PongNeverDroppedForLackOfRecipient ==
    (rpc = "pong" /\ pingRequests = <<>>) => \A p \in Pings : ~SentAndLive(p)

(* The adapter is unbound after having been bound: Close has returned, or  *)
(* Read has returned the close error of a close by the peer, and no Dial   *)
(* has succeeded since.                                                    *)
UnboundAgain == conn = NoConn /\ nextConn >= 1

(* A Write, Read or Ping call that starts goes no further than the check   *)
(* of the handle: it reaches no transport connection.                      *)
StartedCallsStopAtTheCheck ==
    /\ \A w \in Writers : wpc[w] = "idle" => wpc'[w] = "idle"
    /\ rpc = "idle" => rpc' = "idle"
    /\ \A p \in Pings :
          pc[p] \in {"idle", "lock"} => pc'[p] \in {"idle", "lock", "done"}

(* C5 as the spec states it: while the adapter is unbound again, every     *)
(* Write, Read and Ping call that starts fails with the not-bound error    *)
(* and reaches no transport connection.                                    *)
C5_CallsAfterCloseFailNotBound ==
    [][UnboundAgain =>
          /\ StartedCallsStopAtTheCheck
          /\ (wpc' = wpc /\ returned'.call = "Write")
                => returned'.value = NotBoundError
          /\ (rpc = "idle" /\ returned'.call = "Read")
                => returned'.value = NotBoundError
          /\ \A p \in Pings :
                (pc[p] \in {"idle", "lock"} /\ pc'[p] = "done")
                   => result'[p] = NotBoundError
      ]_vars

(* C5, amended: while the adapter is unbound again, every Write, Read and  *)
(* Ping call that starts fails with the not-bound error, or with the       *)
(* context's error when its context is already done at the call, and       *)
(* reaches no transport connection; a Ping whose context is live at the    *)
(* call fails with the not-bound error.                                    *)
C5_CallsAfterCloseFailNotBoundOrCtx ==
    [][UnboundAgain =>
          /\ StartedCallsStopAtTheCheck
          /\ (wpc' = wpc /\ returned'.call = "Write")
                => returned'.value \in {NotBoundError, CtxError}
          /\ (rpc = "idle" /\ returned'.call = "Read")
                => returned'.value \in {NotBoundError, CtxError}
          /\ \A p \in Pings :
                /\ (pc[p] = "idle" /\ pc'[p] = "done")
                      => ctxDone[p] /\ result'[p] = PingCtxError("entry")
                /\ (pc[p] = "lock" /\ pc'[p] = "done")
                      => result'[p] = NotBoundError
      ]_vars

(* Write has just failed with the not-bound error, and a Ping has failed   *)
(* with it too, while the adapter is unbound again.                        *)
C5_Witness ==
    /\ UnboundAgain
    /\ returned = [call |-> "Write", value |-> NotBoundError]
    /\ result[1] = NotBoundError

(* C6 as the spec states it: a Dial that starts while a connection is      *)
(* bound fails with the already-bound error, starts no handshake and       *)
(* leaves the handle as it is; a handshake runs only on an unbound adapter.*)
C6_DialWhileBoundFailsAlreadyBound ==
    [][/\ (conn # NoConn /\ dpc = "idle")
            => /\ dpc' = "idle"
               /\ returned'.call = "Dial"
                    => /\ returned'.value = AlreadyBoundError
                       /\ conn' = conn
                       /\ nextConn' = nextConn
       /\ dpc = "handshake" => conn = NoConn
      ]_vars

(* C6, amended: a Dial that starts while a connection is bound fails with  *)
(* the already-bound error, or with the context's error when its context   *)
(* is already done, starts no handshake and leaves the handle as it is; a  *)
(* handshake runs only on an unbound adapter.                              *)
C6_DialWhileBoundFailsAlreadyBoundOrCtx ==
    [][/\ (conn # NoConn /\ dpc = "idle")
            => /\ dpc' = "idle"
               /\ returned'.call = "Dial"
                    => /\ returned'.value \in {AlreadyBoundError, CtxError}
                       /\ conn' = conn
                       /\ nextConn' = nextConn
       /\ dpc = "handshake" => conn = NoConn
      ]_vars

(* Dial has failed with the already-bound error on a bound connection that *)
(* the peer has closed.                                                    *)
C6_Witness ==
    /\ returned = [call |-> "Dial", value |-> AlreadyBoundError]
    /\ conn # NoConn
    /\ closeIn[conn] # NoCode

(* A notification scan is running: the only steps that receive from        *)
(* pingRequests.                                                           *)
ScanRunning == rpc \in {"pong", "closing"} \/ cpc = "propagate"

(* C7: pingRequests never holds more than QueueCap slots; while it holds   *)
(* QueueCap, a registering Ping stays where it is, sends no ping frame, or *)
(* returns the context's error on a done context, with the queue as it     *)
(* was; a slot leaves the queue only in a step of a notification scan.     *)
C7_QueueNeverExceedsCapacity ==
    [][/\ Len(pingRequests') <= QueueCap
       /\ \A p \in Pings :
             (pc[p] = "register" /\ Len(pingRequests) = QueueCap)
                => \/ pc'[p] = "register"
                   \/ /\ ctxDone[p]
                      /\ pc'[p] = "done"
                      /\ result'[p] = PingCtxError("register")
                      /\ pingRequests' = pingRequests
                      /\ pongs' = pongs
       /\ Len(pingRequests') < Len(pingRequests) => ScanRunning
      ]_vars

(* A Ping is blocked registering on a full queue. *)
C7_Witness ==
    \E p \in Pings : pc[p] = "register" /\ Len(pingRequests) = QueueCap

(* The Ping call p is blocked: registering on a full queue, or in the      *)
(* reply wait.                                                             *)
Blocked(p) ==
    \/ pc[p] = "register" /\ ~PingHasRoom
    \/ pc[p] \in {"select", "waiting"}

(* The slot of p is abandoned: p has returned the context's error from the *)
(* reply wait and its slot is still queued.                                *)
Abandoned(p) ==
    pc[p] = "done" /\ result[p] = PingCtxError("wait") /\ InQueue(p)

(* C8 as the spec states it, the part about the other callers: the slot    *)
(* left in the queue by a Ping that returned the context's error blocks no *)
(* other caller, so no Ping is blocked registering on a full queue that    *)
(* holds an abandoned slot.                                                *)
C8_AbandonedSlotBlocksNoCaller ==
    ~ \E p, q \in Pings :
         /\ Abandoned(p)
         /\ pc[q] = "register"
         /\ ~PingHasRoom

(* C8, amended: a blocked Ping whose context has ended can return, and its *)
(* only step is the return of the context's error, which leaves the queue  *)
(* (its slot included) and every other Ping as they were; a scan that      *)
(* meets an abandoned slot discards it and changes no Ping. The abandoned  *)
(* slot fails no other caller, and it keeps its place in the queue until a *)
(* scan discards it.                                                       *)
C8_BlockedPingReturnsCtxError ==
    [][/\ \A p \in Pings :
             (Blocked(p) /\ ctxDone[p])
                => /\ ENABLED (PingRegisterCancelled(p) \/ PingWaitCancelled(p))
                   /\ pc'[p] # pc[p]
                        => /\ pc'[p] = "done"
                           /\ result'[p].kind = "ctx"
                           /\ pingRequests' = pingRequests
                           /\ \A q \in Pings \ {p} :
                                 pc'[q] = pc[q] /\ result'[q] = result[q]
       /\ \A p \in Pings :
             (Abandoned(p) /\ ~Abandoned(p)')
                => /\ ScanRunning
                   /\ pingRequests # <<>> /\ Head(pingRequests) = p
                   /\ pc' = pc /\ result' = result
      ]_vars

(* A Ping has returned the context's error from the reply wait and its     *)
(* slot is in the queue, behind which another Ping waits for its reply.    *)
C8_Witness ==
    \E p, q \in Pings :
       /\ Abandoned(p)
       /\ Deliverable(q)
       /\ InQueue(q)

(* C9: a Ping called with a done context returns the context's error in    *)
(* its first step, with the queue, the handle, the lock and the frames on  *)
(* the wire as they were.                                                  *)
C9_PingWithDoneContext ==
    [][\A p \in Pings :
          (pc[p] = "idle" /\ ctxDone[p] /\ pc'[p] # "idle")
             => /\ pc'[p] = "done"
                /\ result'[p] = PingCtxError("entry")
                /\ pingRequests' = pingRequests
                /\ conn' = conn
                /\ mu' = mu
                /\ pongs' = pongs
      ]_vars

(* A Ping has returned the context's error of its first select on a bound  *)
(* adapter with a slot queued.                                             *)
C9_Witness ==
    \E p \in Pings :
       /\ result[p] = PingCtxError("entry")
       /\ conn # NoConn
       /\ pingRequests # <<>>

(* C10: a Close that found the adapter bound ends by returning the error   *)
(* of the close-frame send, nil if there was none, with the adapter        *)
(* unbound; a Close that finds the adapter unbound returns the not-bound   *)
(* error and changes nothing.                                              *)
C10_CloseAlwaysUnbinds ==
    [][/\ (cpc # "idle" /\ cpc' = "idle")
            => /\ conn' = NoConn
               /\ returned' = [call |-> "Close",
                               value |-> IF cerr THEN TransportError
                                                 ELSE NilResult]
       /\ (cpc = "idle" /\ returned'.call = "Close")
            => /\ conn = NoConn
               /\ returned'.value = NotBoundError
               /\ UNCHANGED <<conn, mu, pingRequests, nextConn, wireVars,
                              pingVars, readVars, closeVars, dpc, wpc>>
      ]_vars

(* C11: a Dial that returns an error (done context, bound adapter, failed  *)
(* handshake) leaves the handle as it was and opens no connection, so no   *)
(* handler is installed; after a failed handshake the adapter is unbound   *)
(* with the lock free, the state from which a Dial can succeed.            *)
C11_FailedDialBindsNothing ==
    [][(returned'.call = "Dial" /\ returned'.value # NilResult)
          => /\ conn' = conn
             /\ nextConn' = nextConn
             /\ dpc = "handshake"
                  => conn' = NoConn /\ mu' = "none" /\ dpc' = "idle"
      ]_vars

(* A handshake has just failed on an adapter that was bound before and is  *)
(* unbound.                                                                *)
C11_Witness ==
    /\ returned = [call |-> "Dial", value |-> TransportError]
    /\ UnboundAgain

(* The Write calls that hold the mutex and are in WriteMessage. *)
Transmitting == {w \in Writers : wpc[w] = "writing"}

(* C12: at most one Write call is transmitting, it holds the mutex, and a  *)
(* Dial in its handshake or a Close past its lock holds the mutex alone,   *)
(* so no Write transmits meanwhile.                                        *)
C12_WritesAreMutuallyExclusive ==
    /\ Cardinality(Transmitting) <= 1
    /\ Transmitting # {} => mu = "writer"
    /\ dpc = "handshake" => mu = "dialer" /\ Transmitting = {}
    /\ cpc # "idle" => mu = "closer" /\ Transmitting = {}

(* A Write call is transmitting while another Write call, a Dial and a     *)
(* Close are possible: the second writer has not started, the adapter is   *)
(* bound and nothing else is running.                                      *)
C12_Witness ==
    /\ wpc[1] = "writing"
    /\ wpc[2] = "idle"
    /\ conn # NoConn
    /\ ~ENABLED WriteLock(2)
    /\ ~ENABLED DialLock
    /\ ~ENABLED (\E code \in StatusCodes : CloseStart(code))

(* The step is one of the Read call: it moves Read, returns from it, or is *)
(* an iteration of a scan while a handler of Read is scanning.             *)
ReadActs ==
    \/ rpc' # rpc
    \/ returned'.call = "Read"
    \/ rpc \in {"pong", "closing"} /\ Len(pingRequests') < Len(pingRequests)

(* C13: Read gets to clear the handle only after its ReadMessage met a     *)
(* close; the step in which Read returns a close error leaves the handle   *)
(* unbound and the error carries the close code; every other step of Read, *)
(* the return of a data message or of another error included, leaves the   *)
(* handle as it was.                                                       *)
C13_ReadUnbindsExactlyOnClose ==
    [][/\ rpc' = "unbind" => closeIn[rconn] # NoCode
       /\ (returned'.call = "Read" /\ returned'.value.kind = "close")
            => /\ rpc = "unbind"
               /\ conn' = NoConn
               /\ returned'.value.code = closeIn[rconn]
       /\ (ReadActs /\ rpc # "unbind") => conn' = conn
      ]_vars

(* Read has just returned the close error of the connection that was       *)
(* bound, and the adapter is unbound.                                      *)
C13_Witness ==
    /\ returned.call = "Read"
    /\ returned.value.kind = "close"
    /\ returned.value.code \in StatusCodes
    /\ conn = NoConn
    /\ cpc = "idle"

(* The handle changes in this step by one of the three transitions:       *)
(* unbound to bound by a Dial that returns nil, bound to unbound by a      *)
(* Close that returns, bound to unbound by a Read that returns a close     *)
(* error.                                                                  *)
HandleTransition ==
    \/ /\ conn = NoConn /\ conn' # NoConn
       /\ returned' = [call |-> "Dial", value |-> NilResult]
    \/ /\ conn # NoConn /\ conn' = NoConn
       /\ returned'.call = "Close"
       /\ returned'.value \in {NilResult, TransportError}
    \/ /\ conn # NoConn /\ conn' = NoConn
       /\ returned'.call = "Read"
       /\ returned'.value.kind = "close"

(* The step moves a Ping call or runs a handler of Read. *)
PingOrHandlerActs ==
    \/ \E p \in Pings : pc'[p] # pc[p]
    \/ rpc \in {"pong", "closing"} /\ rpc' # rpc

(* C14 as the spec states it, the part about failing calls: every call     *)
(* that returns an error, the close error of Read apart, leaves the handle *)
(* as it was.                                                              *)
C14_FailingCallsLeaveTheHandle ==
    [][(/\ returned'.call # "none"
        /\ returned'.value.kind \notin {"nil", "data", "conn", "close"})
          => conn' = conn
      ]_vars

(* C14, amended: the handle changes only by the three transitions; Write,  *)
(* GetUnderlyingWebsocketConnection, every step of Ping and of the         *)
(* handlers, and every call that returns an error other than a Close whose *)
(* close-frame send failed and a Read that returns a close error, leave    *)
(* the handle as it was.                                                   *)
C14_HandleChangesOnlyByDialCloseRead ==
    [][/\ conn' # conn => HandleTransition
       /\ returned'.call \in {"Write", "Get"} => conn' = conn
       /\ PingOrHandlerActs => conn' = conn
       /\ (/\ returned'.call # "none"
           /\ returned'.value.kind \notin {"nil", "data", "conn", "close"}
           /\ returned' # [call |-> "Close", value |-> TransportError])
            => conn' = conn
      ]_vars

(* A Close whose close-frame send failed has just unbound the second       *)
(* connection: the handle went through every transition.                   *)
C14_Witness ==
    /\ returned = [call |-> "Close", value |-> TransportError]
    /\ conn = NoConn
    /\ nextConn = MaxConns
    /\ rpc = "idle"

(* The number of times the slot of p is in the queue q. *)
Occurrences(q, p) == Cardinality({i \in 1..Len(q) : q[i] = p})

(* The Ping call p is past its registration. *)
PastRegistration(p) == pc[p] \notin {"idle", "lock", "register"}

(* The value is a notification: what a scan sends on a pong channel. *)
IsNotification(value) == value = NilResult \/ value.kind = "close"

(* C15: the slot of a Ping is in the queue at most once and, once out of   *)
(* it, never in it again; a Ping that has a result keeps it; a Ping gets a *)
(* notification only in the step that takes its slot from the head of the  *)
(* queue, while it waits for its reply.                                    *)
C15_SlotNotifiedAtMostOnce ==
    [][\A p \in Pings :
          /\ Occurrences(pingRequests', p) <= 1
          /\ (PastRegistration(p) /\ ~InQueue(p)) => ~InQueue(p)'
          /\ result[p] # NoResult => result'[p] = result[p] /\ pc'[p] = "done"
          /\ (result[p] = NoResult /\ IsNotification(result'[p]))
                => /\ Deliverable(p)
                   /\ pingRequests # <<>> /\ Head(pingRequests) = p
                   /\ ~InQueue(p)'
      ]_vars

(* One Ping has returned on a pong and another on a close notification,    *)
(* and no slot is left in the queue.                                       *)
C15_Witness ==
    /\ \E p, q \in Pings : result[p] = NilResult /\ result[q].kind = "close"
    /\ pingRequests = <<>>

(* C16: a Ping gets to WriteControl only by the step that puts its slot in *)
(* the queue, and a ping frame reaches the wire only in the WriteControl   *)
(* step of a Ping that is there: no frame is sent before its slot was      *)
(* registered.                                                             *)
C16_SlotRegisteredBeforeFrameSent ==
    [][/\ \A p \in Pings :
             /\ (pc[p] # "send" /\ pc'[p] = "send")
                   => /\ pc[p] = "register"
                      /\ pingRequests' = Append(pingRequests, p)
             /\ (pc[p] # "select" /\ pc'[p] = "select") => pc[p] = "send"
       /\ (\E c \in ConnIds : pongs'[c] > pongs[c])
            => \E p \in Pings :
                  /\ pc[p] = "send" /\ pc'[p] = "select"
                  /\ pongs' = [pongs EXCEPT ![pconn[p]] = @ + 1]
      ]_vars

(* A Ping has sent its frame, whose pong is on the wire, and its slot is   *)
(* in the queue.                                                           *)
C16_Witness ==
    \E p \in Pings :
       /\ pc[p] = "select"
       /\ InQueue(p)
       /\ pongs[pconn[p]] > 0

(* The caller of the Ping p has stopped waiting: it has returned, or its   *)
(* context has ended after its frame was sent.                             *)
StoppedWaiting(p) ==
    \/ pc[p] = "done"
    \/ pc[p] \in {"select", "waiting"} /\ ctxDone[p]

(* The step is an iteration of a scan that received a channel. *)
ScanTakesSlot == Len(pingRequests') < Len(pingRequests)

(* C17: a scan that receives the slot of a Ping that has stopped waiting   *)
(* takes it out of the queue, delivers nothing and goes on; a waiting Ping *)
(* behind the slot received keeps its slot in the queue; the scan of a     *)
(* pong ends on an empty queue or by delivering nil to the Ping at the     *)
(* head, which is waiting.                                                 *)
C17_AbandonedSlotsAreSkipped ==
    [][/\ \A p \in Pings :
             (/\ ScanTakesSlot
              /\ Head(pingRequests) = p
              /\ StoppedWaiting(p))
                => /\ pingRequests' = Tail(pingRequests)
                   /\ pc' = pc /\ result' = result
                   /\ rpc' = rpc /\ cpc' = cpc
       /\ \A q \in Pings :
             (/\ ScanTakesSlot
              /\ InQueue(q) /\ Deliverable(q)
              /\ Head(pingRequests) # q
              /\ ~Deliverable(Head(pingRequests)))
                => InQueue(q)' /\ Deliverable(q)'
       /\ (rpc = "pong" /\ rpc' = "reading" /\ pingRequests # <<>>)
            => /\ Deliverable(Head(pingRequests))
               /\ result'[Head(pingRequests)] = NilResult
               /\ pingRequests' = Tail(pingRequests)
      ]_vars

(* The scan of a pong has taken out the slot of a Ping that had registered *)
(* and stopped waiting, and the Ping now at the head was waiting when the  *)
(* pong arrived and still is.                                              *)
C17_Witness ==
    /\ rpc = "pong"
    /\ pingRequests # <<>>
    /\ Head(pingRequests) \in handlerPending
    /\ Deliverable(Head(pingRequests))
    /\ \E p \in Pings :
          /\ result[p] \in {PingFailedError, PingCtxError("wait")}
          /\ ~InQueue(p)

(* C18: the step in which the WriteControl of a Ping fails returns the     *)
(* ping-failed error to that Ping and leaves every other Ping, the handle, *)
(* the queue and the wire as they were; the slot of the failed Ping leaves *)
(* the queue only as the head a scan receives, which delivers nothing.     *)
C18_FailedPingSendTouchesNoOtherPing ==
    [][\A p \in Pings :
          /\ (pc[p] = "send" /\ pc'[p] = "done")
                => /\ result'[p] = PingFailedError
                   /\ \A q \in Pings \ {p} :
                         pc'[q] = pc[q] /\ result'[q] = result[q]
                   /\ conn' = conn
                   /\ pingRequests' = pingRequests
                   /\ pongs' = pongs
          /\ (result[p] = PingFailedError /\ InQueue(p) /\ ~InQueue(p)')
                => /\ ScanRunning
                   /\ Head(pingRequests) = p
                   /\ pc' = pc /\ result' = result
      ]_vars

(* A Ping has returned the ping-failed error, its slot is in the queue in  *)
(* front of the slot of a Ping that waits for its reply, and the adapter   *)
(* is bound.                                                               *)
C18_Witness ==
    \E p, q \in Pings :
       /\ result[p] = PingFailedError
       /\ pingRequests = <<p, q>>
       /\ Deliverable(q)
       /\ conn # NoConn

(* The queue is full and every slot in it is abandoned. *)
DeadQueue ==
    /\ Len(pingRequests) = QueueCap
    /\ \A i \in 1..Len(pingRequests) : Abandoned(pingRequests[i])

(* C19: a slot leaves the queue only in an iteration of a running scan;    *)
(* while the queue is full of abandoned slots, a Ping in its registration  *)
(* cannot register: it stays there while its context is live, its only     *)
(* way out is the return of the context's error, and without a scan the    *)
(* queue stays as it is.                                                   *)
C19_DeadSlotsBlockRegistration ==
    [][/\ ScanTakesSlot => ScanRunning
       /\ \A q \in Pings :
             (DeadQueue /\ pc[q] = "register")
                => /\ ~ENABLED PingRegister(q)
                   /\ ~ctxDone[q] => pc'[q] = "register"
                   /\ pc'[q] # "register"
                        => pc'[q] = "done" /\ result'[q] = PingCtxError("register")
                   /\ ~ScanRunning => pingRequests' = pingRequests
      ]_vars

(* The queue is full of abandoned slots, no Ping waits for a reply, no     *)
(* Read is running, and a Ping with a live context is in its registration. *)
C19_Witness ==
    /\ DeadQueue
    /\ WaitingPings = {}
    /\ rpc = "idle"
    /\ \E q \in Pings : pc[q] = "register" /\ ~ctxDone[q]

(* C20: the step in which Read returns a close error clears the handle     *)
(* only if the handle is the connection Read was reading from, and writes  *)
(* the handle only while no caller holds the mutex; a newer binding is     *)
(* left as it is.                                                          *)
C20_ReadUnbindsOnlyItsOwnConnection ==
    [][(rpc = "unbind" /\ rpc' = "idle")
          => /\ conn # rconn => conn' = conn
             /\ mu # "none" => conn' = conn
      ]_vars

(* A teardown scan is running: the propagation of Close or of closeHandler. *)
TeardownScanRunning == cpc = "propagate" \/ rpc = "closing"

(* C21: whenever the adapter is unbound and no teardown scan is running,   *)
(* no Ping with a live context is blocked waiting for a reply.             *)
C21_NoPingWaitsOnEndedConnection ==
    (conn = NoConn /\ ~TeardownScanRunning)
       => \A p \in Pings : ~Deliverable(p)

====
